---- MODULE Spec2Model ----
(***************************************************************************)
(* ServiceNowScheduler: the template workflow of src/src/template.py, the  *)
(* client calls of src/src/servicenow.py it drives, and the per-template   *)
(* loop of src/main.py.                                                    *)
(***************************************************************************)
EXTENDS Integers, Sequences, FiniteSets, TLC

VARIABLES
    today,            \* main.py:130  today = datetime.now()
    integrationClient,\* main.py:144-155  TRUE iff sn_integration_client is not None
    fs,               \* the local files that exist right now (os.path.isfile / exists)
    idx,              \* main.py:158  position of the for loop in `templates`
    pc,               \* where the runner stands in the loop body
    tpl,              \* the TicketTemplate instance of this iteration
    loadRes,          \* what template.load() returned ("unset" before the call)
    validRes,         \* what template.validate_structure() returned
    dueRes,           \* what template.is_due(today) returned
    ret,              \* what template.create_ticket(...) returned
    updateRes,        \* what update_ticket returned to _finalize_details
    ticket_base,      \* create_ticket's local ticket_base
    attIdx,           \* _finalize_details: index of the attachment loop
    calls,            \* the HTTP requests issued for this template, in order
    attempts,         \* the add_attachment invocations for this template, in order
    outcomes,         \* terminal outcome of every template already left behind
    prev,             \* the template as it was when its latest method was called
    fileKind,         \* what load found at template_path ("unread" before the call)
    http,             \* _execute_http_request on its own: what came in, what it returned
    ops               \* the methods called on the instance so far, with what they returned

vars == <<today, integrationClient, fs, idx, pc, tpl, loadRes, validRes, dueRes,
          ret, updateRes, ticket_base, attIdx, calls, attempts, outcomes,
          prev, fileKind, http, ops>>

----------------------------------------------------------------------------
(* Bounds of the model *)

NumTemplates == 2
MaxAtt == 2
FirstYear == 2024
LastYear == 2025
MaxCalls == 3

----------------------------------------------------------------------------
(* Python values as they come out of tomllib: a tag, a number, a string.   *)

PyNone == [t |-> "none", n |-> 0, s |-> ""]
PyStr(x) == [t |-> "str", n |-> 0, s |-> x]
PyInt(k) == [t |-> "int", n |-> k, s |-> ""]
PyBool(b) == [t |-> "bool", n |-> IF b THEN 1 ELSE 0, s |-> ""]
PyFloat(k) == [t |-> "float", n |-> k, s |-> ""]

\* bool(x): None, "", 0, 0.0 and False are falsy
Truthy(x) ==
    CASE x.t = "none" -> FALSE
      [] x.t = "str" -> x.s # ""
      [] OTHER -> x.n # 0

\* isinstance(x, str)
IsInstanceStr(x) == x.t = "str"

\* isinstance(x, bool)
IsInstanceBool(x) == x.t = "bool"

\* isinstance(x, int): bool is a subclass of int, so True and False pass
IsInstanceInt(x) == x.t \in {"int", "bool"}

\* k == x for a Python int k: True == 1, False == 0, 2.0 == 2; a str or None never
IntEquals(k, x) == x.t \in {"int", "bool", "float"} /\ x.n = k

----------------------------------------------------------------------------
(* datetime: today.weekday(), today.day, today.month                       *)

IsLeap(y) == (y % 4 = 0) /\ ((y % 100 # 0) \/ (y % 400 = 0))

DaysInMonth(y, m) ==
    IF m = 2 THEN (IF IsLeap(y) THEN 29 ELSE 28)
    ELSE IF m \in {4, 6, 9, 11} THEN 30 ELSE 31

DaysBeforeYear(y) ==
    (y - 1) * 365 + ((y - 1) \div 4) - ((y - 1) \div 100) + ((y - 1) \div 400)

RECURSIVE DaysBeforeMonth(_, _)
DaysBeforeMonth(y, m) ==
    IF m = 1 THEN 0 ELSE DaysBeforeMonth(y, m - 1) + DaysInMonth(y, m - 1)

\* date.toordinal(): 0001-01-01 is day 1
ToOrdinal(d) == DaysBeforeYear(d.year) + DaysBeforeMonth(d.year, d.month) + d.day

\* date.weekday(): Monday is 0, Sunday is 6
Weekday(d) == (ToOrdinal(d) + 6) % 7

Dates ==
    {d \in [year : FirstYear..LastYear, month : 1..12, day : 1..31] :
        d.day <= DaysInMonth(d.year, d.month)}

----------------------------------------------------------------------------
(* The schedule mapping.  frequency is kept as a string, FreqMissing when   *)
(* the key is absent; months is a tag and the integers that compare equal  *)
(* to an element of the list (what `today.month in months` looks at);      *)
(* extra says the table holds some other key.                              *)

FreqMissing == "<missing>"

NoMonths == [t |-> "none", items |-> {}]
MonthList(S) == [t |-> "list", items |-> S]

EmptySchedule ==
    [frequency |-> FreqMissing, day_of_week |-> PyNone, day_of_month |-> PyNone,
     months |-> NoMonths, extra |-> FALSE]

\* bool(self.schedule): a dict is truthy iff it holds a key
ScheduleNonEmpty(sch) ==
    \/ sch.frequency # FreqMissing
    \/ sch.day_of_week.t # "none"
    \/ sch.day_of_month.t # "none"
    \/ sch.months.t # "none"
    \/ sch.extra

\* is_due answering true for a frequency it does not know.
IsDueUnknownFrequencyDue(sch, d) ==
    IF sch.frequency = "daily" THEN Weekday(d) < 5
    ELSE IF sch.frequency = "weekly" THEN
        IsInstanceInt(sch.day_of_week) /\ IntEquals(Weekday(d), sch.day_of_week)
    ELSE IF sch.frequency = "monthly" THEN
        IsInstanceInt(sch.day_of_month) /\ IntEquals(d.day, sch.day_of_month)
    ELSE IF sch.frequency = "quarterly" THEN
        /\ sch.months.t = "list"
        /\ IsInstanceInt(sch.day_of_month)
        /\ d.month \in sch.months.items
        /\ IntEquals(d.day, sch.day_of_month)
    ELSE TRUE

\* is_due with the daily rule off by one: Saturday counted as a working day.
IsDueSaturdayToo(sch, d) ==
    IF sch.frequency = "daily" THEN Weekday(d) <= 5
    ELSE IF sch.frequency = "weekly" THEN
        IsInstanceInt(sch.day_of_week) /\ IntEquals(Weekday(d), sch.day_of_week)
    ELSE IF sch.frequency = "monthly" THEN
        IsInstanceInt(sch.day_of_month) /\ IntEquals(d.day, sch.day_of_month)
    ELSE IF sch.frequency = "quarterly" THEN
        /\ sch.months.t = "list"
        /\ IsInstanceInt(sch.day_of_month)
        /\ d.month \in sch.months.items
        /\ IntEquals(d.day, sch.day_of_month)
    ELSE FALSE

\* TicketTemplate.is_due
IsDue(sch, d) ==
    IF sch.frequency = "daily" THEN Weekday(d) < 5
    ELSE IF sch.frequency = "weekly" THEN
        IsInstanceInt(sch.day_of_week) /\ IntEquals(Weekday(d), sch.day_of_week)
    ELSE IF sch.frequency = "monthly" THEN
        IsInstanceInt(sch.day_of_month) /\ IntEquals(d.day, sch.day_of_month)
    ELSE IF sch.frequency = "quarterly" THEN
        /\ sch.months.t = "list"
        /\ IsInstanceInt(sch.day_of_month)
        /\ d.month \in sch.months.items
        /\ IntEquals(d.day, sch.day_of_month)
    ELSE FALSE

----------------------------------------------------------------------------
(* The TicketTemplate instance and the template file it is loaded from.     *)

\* One element of attachments.files: kind says whether it is a table
Entry(p, r) == [kind |-> "dict", path |-> p, required |-> r]
NotADict == [kind |-> "other", path |-> PyNone, required |-> PyNone]

\* TicketTemplate.__init__
NewTemplate ==
    [assignment_group |-> PyNone, short_description |-> PyNone,
     description |-> PyNone, integration_helper |-> PyNone,
     schedule |-> EmptySchedule, attachments |-> <<>>,
     validation_errors |-> <<>>]

\* A template file: kind is how far tomllib and load get with it
Doc(k, ag, sd, d, ih, sch, atts) ==
    [kind |-> k, assignment_group |-> ag, short_description |-> sd,
     description |-> d, integration_helper |-> ih, schedule |-> sch,
     attachments |-> atts]

\* An except clause of load starting validation_errors afresh.
LoadErrorStartsAfresh(t, msg) ==
    [tpl |-> [t EXCEPT !.validation_errors = <<msg>>], ok |-> FALSE,
     raised |-> FALSE]

\* load, lines 114-129: an except clause records the error and returns False
LoadError(t, msg) ==
    [tpl |-> [t EXCEPT !.validation_errors = Append(@, msg)], ok |-> FALSE,
     raised |-> FALSE]

\* load without its last clause, `except Exception`: what is neither a
\* missing file nor a TOML error leaves the method as an exception.
LoadWithoutCatchAll(t, doc) ==
    CASE doc.kind = "missing" -> LoadError(t, "File not found")
      [] doc.kind = "decode_error" -> LoadError(t, "TOML decode error")
      [] doc.kind = "no_ticket" -> LoadError(t, "'ticket' section not found")
      [] doc.kind = "ticket_not_table" -> [tpl |-> t, ok |-> FALSE, raised |-> TRUE]
      [] doc.kind = "attachments_not_table" ->
            [tpl |-> [t EXCEPT !.assignment_group = doc.assignment_group,
                               !.short_description = doc.short_description,
                               !.description = doc.description,
                               !.integration_helper = doc.integration_helper,
                               !.schedule = doc.schedule],
             ok |-> FALSE, raised |-> TRUE]
      [] OTHER ->
            [tpl |-> [t EXCEPT !.assignment_group = doc.assignment_group,
                               !.short_description = doc.short_description,
                               !.description = doc.description,
                               !.integration_helper = doc.integration_helper,
                               !.schedule = doc.schedule,
                               !.attachments = doc.attachments],
             ok |-> TRUE, raised |-> FALSE]

\* TicketTemplate.load
Load(t, doc) ==
    CASE doc.kind = "missing" -> LoadError(t, "File not found")
      [] doc.kind = "decode_error" -> LoadError(t, "TOML decode error")
      [] doc.kind = "no_ticket" -> LoadError(t, "'ticket' section not found")
      [] doc.kind = "ticket_not_table" -> LoadError(t, "Unexpected loading error")
      [] doc.kind = "attachments_not_table" ->
            LoadError([t EXCEPT !.assignment_group = doc.assignment_group,
                                !.short_description = doc.short_description,
                                !.description = doc.description,
                                !.integration_helper = doc.integration_helper,
                                !.schedule = doc.schedule],
                      "Unexpected loading error")
      [] OTHER ->
            [tpl |-> [t EXCEPT !.assignment_group = doc.assignment_group,
                               !.short_description = doc.short_description,
                               !.description = doc.description,
                               !.integration_helper = doc.integration_helper,
                               !.schedule = doc.schedule,
                               !.attachments = doc.attachments],
             ok |-> TRUE, raised |-> FALSE]

\* validate_structure, lines 145-151: one required top-level field
FieldErrors(name, v) ==
    IF v.t = "none" THEN <<"'" \o name \o "' is missing or null.">>
    ELSE IF ~IsInstanceStr(v) THEN <<"'" \o name \o "' must be a string.">>
    ELSE <<>>

\* validate_structure, lines 154-157
HelperErrors(v) ==
    IF v.t # "none" /\ ~IsInstanceBool(v)
    THEN <<"'integration_helper' must be a boolean when provided.">>
    ELSE <<>>

AllowedFrequencies == {"daily", "weekly", "monthly", "quarterly"}

\* validate_structure, lines 173-189: the frequency-specific fields
FrequencyFieldErrors(sch) ==
    IF sch.frequency = "weekly" /\ sch.day_of_week.t = "none"
    THEN <<"'day_of_week' (integer) is missing for weekly frequency.">>
    ELSE IF sch.frequency = "monthly" /\ sch.day_of_month.t = "none"
    THEN <<"'day_of_month' (integer) is missing for monthly frequency.">>
    ELSE IF sch.frequency = "quarterly"
            /\ (sch.months.t = "none" \/ sch.day_of_month.t = "none")
    THEN <<"'months' (list of int) or 'day_of_month' (int) is missing for quarterly frequency.">>
    ELSE <<>>

\* validate_structure, lines 160-189
ScheduleErrors(sch) ==
    IF ~ScheduleNonEmpty(sch)
    THEN <<"'schedule' dictionary is empty or was missing.">>
    ELSE IF sch.frequency = FreqMissing
    THEN <<"'frequency' is missing in [ticket.schedule].">>
    ELSE (IF sch.frequency \notin AllowedFrequencies
          THEN <<"Invalid 'frequency' value.">> ELSE <<>>)
         \o FrequencyFieldErrors(sch)

\* The attachment check keeping an optional item whose file is not there.
CheckAttachmentKeepsMissingOptional(item, i, files) ==
    LET at == " attachment item at index " \o ToString(i)
        validPath == IsInstanceStr(item.path) /\ item.path.s # ""
        validReq == IsInstanceBool(item.required)
        pathErrs ==
            IF item.path.t = "none" THEN <<"'path' is missing or null in" \o at>>
            ELSE IF ~validPath THEN <<"'path' must be a non-empty string in" \o at>>
            ELSE <<>>
        reqErrs ==
            IF item.required.t = "none" THEN <<"'required' is missing or null in" \o at>>
            ELSE IF ~validReq THEN <<"'required' must be a boolean in" \o at>>
            ELSE <<>>
        exists == item.path.s \in files
    IN  IF item.kind # "dict"
        THEN [errs |-> <<"not a dictionary:" \o at>>, keep |-> FALSE]
        ELSE IF ~(validPath /\ validReq)
        THEN [errs |-> pathErrs \o reqErrs, keep |-> FALSE]
        ELSE IF item.required.n = 1
        THEN (IF ~exists
              THEN [errs |-> <<"Required file does not exist:" \o at>>, keep |-> FALSE]
              ELSE [errs |-> <<>>, keep |-> TRUE])
        ELSE [errs |-> <<>>, keep |-> TRUE]

\* The attachment check with a missing required file treated like a missing
\* optional one: dropped without an error.
CheckAttachmentMissingRequiredDropped(item, i, files) ==
    LET at == " attachment item at index " \o ToString(i)
        validPath == IsInstanceStr(item.path) /\ item.path.s # ""
        validReq == IsInstanceBool(item.required)
        pathErrs ==
            IF item.path.t = "none" THEN <<"'path' is missing or null in" \o at>>
            ELSE IF ~validPath THEN <<"'path' must be a non-empty string in" \o at>>
            ELSE <<>>
        reqErrs ==
            IF item.required.t = "none" THEN <<"'required' is missing or null in" \o at>>
            ELSE IF ~validReq THEN <<"'required' must be a boolean in" \o at>>
            ELSE <<>>
        exists == item.path.s \in files
    IN  IF item.kind # "dict"
        THEN [errs |-> <<"not a dictionary:" \o at>>, keep |-> FALSE]
        ELSE IF ~(validPath /\ validReq)
        THEN [errs |-> pathErrs \o reqErrs, keep |-> FALSE]
        ELSE [errs |-> <<>>, keep |-> exists]

\* validate_structure, lines 194-239: one attachment item at (0-based) index i.
\* errs are the errors it adds, keep says whether it is retained.
CheckAttachment(item, i, files) ==
    LET at == " attachment item at index " \o ToString(i)
        validPath == IsInstanceStr(item.path) /\ item.path.s # ""
        validReq == IsInstanceBool(item.required)
        pathErrs ==
            IF item.path.t = "none" THEN <<"'path' is missing or null in" \o at>>
            ELSE IF ~validPath THEN <<"'path' must be a non-empty string in" \o at>>
            ELSE <<>>
        reqErrs ==
            IF item.required.t = "none" THEN <<"'required' is missing or null in" \o at>>
            ELSE IF ~validReq THEN <<"'required' must be a boolean in" \o at>>
            ELSE <<>>
        exists == item.path.s \in files
    IN  IF item.kind # "dict"
        THEN [errs |-> <<"not a dictionary:" \o at>>, keep |-> FALSE]
        ELSE IF ~(validPath /\ validReq)
        THEN [errs |-> pathErrs \o reqErrs, keep |-> FALSE]
        ELSE IF item.required.n = 1
        THEN (IF ~exists
              THEN [errs |-> <<"Required file does not exist:" \o at>>, keep |-> FALSE]
              ELSE [errs |-> <<>>, keep |-> TRUE])
        ELSE [errs |-> <<>>, keep |-> exists]

\* validate_structure, lines 192-239: the loop, from (1-based) position k on
RECURSIVE ProcessAttachments(_, _, _)
ProcessAttachments(atts, k, files) ==
    IF k > Len(atts) THEN [errs |-> <<>>, kept |-> <<>>]
    ELSE LET one == CheckAttachment(atts[k], k - 1, files)
             rest == ProcessAttachments(atts, k + 1, files)
         IN  [errs |-> one.errs \o rest.errs,
              kept |-> (IF one.keep THEN <<atts[k]>> ELSE <<>>) \o rest.kept]

\* validate_structure giving up at the first error it finds.
ValidateStructureFirstErrorOnly(t, files) ==
    LET atts == ProcessAttachments(t.attachments, 1, files)
        all_errors ==
            FieldErrors("short_description", t.short_description)
            \o FieldErrors("description", t.description)
            \o FieldErrors("assignment_group", t.assignment_group)
            \o HelperErrors(t.integration_helper)
            \o ScheduleErrors(t.schedule)
            \o atts.errs
        current_errors == IF all_errors = <<>> THEN <<>> ELSE <<Head(all_errors)>>
    IN  [tpl |-> [t EXCEPT !.attachments = atts.kept,
                           !.validation_errors = @ \o current_errors],
         ok |-> current_errors = <<>>]

\* validate_structure answering from the top-level and schedule checks alone,
\* the attachment errors being recorded but not counted.
ValidateStructureAttachmentErrorsNotCounted(t, files) ==
    LET atts == ProcessAttachments(t.attachments, 1, files)
        early_errors ==
            FieldErrors("short_description", t.short_description)
            \o FieldErrors("description", t.description)
            \o FieldErrors("assignment_group", t.assignment_group)
            \o HelperErrors(t.integration_helper)
            \o ScheduleErrors(t.schedule)
    IN  [tpl |-> [t EXCEPT !.attachments = atts.kept,
                           !.validation_errors = @ \o early_errors \o atts.errs],
         ok |-> early_errors = <<>>]

\* TicketTemplate.validate_structure
ValidateStructure(t, files) ==
    LET atts == ProcessAttachments(t.attachments, 1, files)
        current_errors ==
            FieldErrors("short_description", t.short_description)
            \o FieldErrors("description", t.description)
            \o FieldErrors("assignment_group", t.assignment_group)
            \o HelperErrors(t.integration_helper)
            \o ScheduleErrors(t.schedule)
            \o atts.errs
    IN  [tpl |-> [t EXCEPT !.attachments = atts.kept,
                           !.validation_errors = @ \o current_errors],
         ok |-> current_errors = <<>>]

----------------------------------------------------------------------------
(* The remote side: what one HTTP request can come back with, and what the  *)
(* client methods make of it.                                               *)

\* A record mapping (a dict) or None: present = is not None, nonempty = bool(dict)
NoRecord == [present |-> FALSE, nonempty |-> FALSE, sys_id |-> PyNone]
Record(sid) == [present |-> TRUE, nonempty |-> TRUE, sys_id |-> sid]
EmptyDict == [present |-> TRUE, nonempty |-> FALSE, sys_id |-> PyNone]

\* `not ritm_data`, `not ticket_base`
RecordTruthy(r) == r.present /\ r.nonempty

\* The identifiers the remote system gives the ticket of the i-th template
SysIdOf(i) == PyStr("sys_" \o ToString(i))
NumberOf(i) == PyStr("RITM" \o ToString(i))

\* "Scheduled ticket", the text both creation paths send
Placeholder == PyStr("Scheduled ticket")

\* What _execute_http_request hands back: shape "fault" is None (a non-2xx
\* status or a transport fault), "marker" the synthetic success mapping of a
\* 204 or an empty body (a mapping without "result"), "result_other" a JSON
\* object whose "result" is not of the expected kind, "result" one whose
\* "result" is rec (with number num where the caller reads one).
Response(shape, rec, num) == [shape |-> shape, rec |-> rec, num |-> num]

PlainResponses ==
    {Response(sh, NoRecord, PyNone) :
        sh \in {"fault", "marker", "result_other"}}

\* The records a successful creation or lookup can carry for template i
ResultRecords(i) == {Record(SysIdOf(i)), Record(PyNone), EmptyDict}

\* POST table/sc_req_item, and the GET by number
RecordResponses(i) ==
    PlainResponses \cup {Response("result", r, PyNone) : r \in ResultRecords(i)}

\* POST to the integration endpoint: result.requestItemNumber is num;
\* "result_no_number" has a result without that key
IntegrationResponses(i) ==
    PlainResponses
    \cup {Response("result", NoRecord, n) : n \in {NumberOf(i), PyStr("")}}
    \cup {Response("result_no_number", NoRecord, PyNone)}

\* PUT table/sc_req_item/<sys_id> and POST attachment/file
SimpleResponses(i) ==
    {Response(sh, NoRecord, PyNone) : sh \in {"fault", "marker"}}
    \cup {Response("result", Record(SysIdOf(i)), PyNone)}

\* Nothing has been handed to _execute_http_request on its own
NoHttp == [status |-> 0, fault |-> "none", body |-> "empty", out |-> "unset"]

\* What session.request comes back with: an exception of the transport
\* (fault), or a response with its status code and its body
HttpExchange(f, st, b) == [status |-> st, fault |-> f, body |-> b, out |-> "unset"]

\* _execute_http_request, line 114: response.raise_for_status() raises
\* HTTPError for the 4xx and 5xx codes and for no other
RaiseForStatus(st) == 400 <= st /\ st < 600

\* _execute_http_request, line 126: response.json() gives the parsed body,
\* or raises JSONDecodeError, a RequestException, when the body is not JSON
ResponseJson(b) == IF b \in {"json_result", "json_other", "json_list"} THEN "parsed" ELSE "null"

\* _execute_http_request with the `except Timeout` and the final
\* `except RequestException` clauses missing.
ExecuteHttpRequestTimeoutUncaught(x) ==
    IF x.fault \in {"timeout", "request"} THEN "raised"
    ELSE IF x.fault # "none" THEN "null"
    ELSE IF RaiseForStatus(x.status) THEN "null"
    ELSE IF x.status = 204 THEN "marker"
    ELSE IF x.body = "empty" THEN "marker"
    ELSE IF ResponseJson(x.body) = "null" THEN "raised"
    ELSE ResponseJson(x.body)

\* ServiceNowClient._execute_http_request, lines 102-141: "null" is None,
\* "marker" the {"status": "success", ...} mapping, "parsed" the JSON body
ExecuteHttpRequest(x) ==
    IF x.fault # "none" THEN "null"
    ELSE IF RaiseForStatus(x.status) THEN "null"
    ELSE IF x.status = 204 THEN "marker"
    ELSE IF x.body = "empty" THEN "marker"
    ELSE ResponseJson(x.body)

\* One entry of the request log: what was sent, and what the answer carried
\* (rec the record under "result", num the requestItemNumber)
Call(i, op, client, sid, sd, d, path, resp) ==
    [tpl |-> i, op |-> op, client |-> client, sys_id |-> sid,
     short_description |-> sd, description |-> d, path |-> path,
     res |-> IF resp.shape = "fault" THEN "null" ELSE "ok",
     rec |-> resp.rec, num |-> resp.num]

\* ServiceNowClient.create_requested_item: the created record or None
StdCreateResult(resp) ==
    IF resp.shape = "result" THEN resp.rec ELSE NoRecord

\* ServiceNowClient.update_ticket: "null" iff it returns None
UpdateResult(resp) ==
    IF resp.shape = "fault" THEN "null" ELSE "record"

\* ServiceNowClient.add_attachment, lines 991-1008
UploadResult(resp) ==
    IF resp.shape = "fault" THEN "null" ELSE "uploaded"

\* _find_record never finding the record.
FindResultAlwaysNone(resp) == NoRecord

\* ServiceNowClient._find_record by number over _get_record: the first
\* element of a non-empty result list, else None
FindResult(resp) ==
    IF resp.shape = "result" THEN resp.rec ELSE NoRecord

----------------------------------------------------------------------------
(* The runner, main.py:157-169, and the inputs it is run on.                *)

Paths == {"a.txt", "b.txt"}

Daily == [EmptySchedule EXCEPT !.frequency = "daily"]
Weekly(dow) == [EmptySchedule EXCEPT !.frequency = "weekly", !.day_of_week = dow]
Monthly(dom) == [EmptySchedule EXCEPT !.frequency = "monthly", !.day_of_month = dom]
Quarterly(ms, dom) ==
    [EmptySchedule EXCEPT !.frequency = "quarterly", !.months = ms,
                          !.day_of_month = dom]

RECURSIVE SeqsUpTo(_, _)
SeqsUpTo(S, n) ==
    IF n = 0 THEN {<<>>}
    ELSE LET shorter == SeqsUpTo(S, n - 1)
         IN  shorter \cup {Append(q, x) : q \in {r \in shorter : Len(r) = n - 1}, x \in S}

RunnerEntries == {Entry(PyStr("a.txt"), PyBool(TRUE)), Entry(PyStr("b.txt"), PyBool(FALSE))}

RunnerDocs ==
    {Doc("ok", PyStr("group"), sd, PyStr("long text"), ih, sch, atts) :
        sd \in {PyNone, PyStr("short text")},
        ih \in {PyNone, PyBool(TRUE), PyBool(FALSE)},
        sch \in {Daily, Weekly(PyInt(5))},
        atts \in SeqsUpTo(RunnerEntries, MaxAtt)}
    \cup {Doc(k, PyNone, PyNone, PyNone, PyNone, EmptySchedule, <<>>) :
            k \in {"missing", "decode_error", "no_ticket", "ticket_not_table"}}
    \cup {Doc("attachments_not_table", PyStr("group"), PyStr("short text"),
              PyStr("long text"), PyNone, Daily, <<>>)}

RunnerDates == {d \in Dates : d.year = FirstYear /\ d.month = 1 /\ d.day \in 5..6}

Bool3(b) == IF b THEN "true" ELSE "false"

\* One method call on the instance and what it returned ("called" for
\* create_ticket, whose return value is ret)
OpRec(op, res) == [op |-> op, res |-> res]

Init ==
    /\ today \in RunnerDates
    /\ integrationClient \in BOOLEAN
    /\ fs = Paths
    /\ idx = 1
    /\ pc = "load"
    /\ tpl = NewTemplate
    /\ loadRes = "unset"
    /\ validRes = "unset"
    /\ dueRes = "unset"
    /\ ret = "unset"
    /\ updateRes = "unset"
    /\ ticket_base = NoRecord
    /\ attIdx = 0
    /\ calls = <<>>
    /\ attempts = <<>>
    /\ outcomes = <<>>
    /\ prev = NewTemplate
    /\ fileKind = "unread"
    /\ http = NoHttp
    /\ ops = <<>>

\* The loop without its `continue` after a failed load.
AfterLoadNoContinue(ok) == "validate"

\* main.py:161-162
AfterLoad(ok) == IF ok THEN "validate" ELSE "finished"

\* main.py:164
AfterValidate(ok) == IF ok THEN "is_due" ELSE "finished"

\* The runner with the schedule check dropped: every valid template is created.
AfterIsDueAlways(due) == "create"

\* main.py:165-169
AfterIsDue(due) == IF due THEN "create" ELSE "finished"

\* main.py:160-162  template = TicketTemplate(file); template.load()
RunLoad ==
    /\ prev' = tpl
    /\ pc = "load"
    /\ \E doc \in RunnerDocs :
          LET r == Load(tpl, doc)
          IN  /\ tpl' = r.tpl
              /\ loadRes' = IF r.raised THEN "raised" ELSE Bool3(r.ok)
              /\ fileKind' = doc.kind
              /\ pc' = IF r.raised THEN "crashed" ELSE AfterLoad(r.ok)
    /\ UNCHANGED <<today, integrationClient, fs, idx, validRes, dueRes, ret,
                   updateRes, ticket_base, attIdx, calls, attempts, outcomes,
                   http>>
    /\ ops' = Append(ops, OpRec("load", loadRes'))

\* main.py:164  template.validate_structure()
RunValidate ==
    /\ prev' = tpl
    /\ pc = "validate"
    /\ LET r == ValidateStructure(tpl, fs)
       IN  /\ tpl' = r.tpl
           /\ validRes' = Bool3(r.ok)
           /\ pc' = AfterValidate(r.ok)
    /\ UNCHANGED <<today, integrationClient, fs, idx, loadRes, dueRes, ret,
                   updateRes, ticket_base, attIdx, calls, attempts, outcomes,
                   http, fileKind>>
    /\ ops' = Append(ops, OpRec("validate_structure", validRes'))

\* main.py:165  template.is_due(today)
RunIsDue ==
    /\ prev' = tpl
    /\ pc = "is_due"
    /\ LET due == IsDue(tpl.schedule, today)
       IN  /\ dueRes' = Bool3(due)
           /\ pc' = AfterIsDue(due)
    /\ UNCHANGED <<today, integrationClient, fs, idx, tpl, loadRes, validRes, ret,
                   updateRes, ticket_base, attIdx, calls, attempts, outcomes,
                   http, fileKind>>
    /\ ops' = Append(ops, OpRec("is_due", dueRes'))

----------------------------------------------------------------------------
(* TicketTemplate.create_ticket, one step per client method it calls.       *)

\* create_ticket falling back to the standard path when the integration
\* client is not there.
CreationPathFallback(t, hasClient) ==
    IF Truthy(t.integration_helper) /\ hasClient THEN "integration" ELSE "api"

\* create_ticket, lines 284-293: which creation path is taken
CreationPath(t, hasClient) ==
    IF Truthy(t.integration_helper)
    THEN (IF hasClient THEN "integration" ELSE "none")
    ELSE "api"

\* create_ticket without the `if not ticket_base` check.
AfterCreateAlways(base) == "update"

\* create_ticket, lines 295-299: on to _finalize_details, or return False
AfterCreate(base) == IF RecordTruthy(base) THEN "update" ELSE "finished"

\* create_ticket's return value when phase 1 gave no record, line 296
CreateFailedReturn == "False"

\* _finalize_details handed the integration client.
FinalizeClientIntegration == "integration"

\* _finalize_details, lines 73 and 82: the client phases 2 and 3 go through
FinalizeClient == "api"

\* _finalize_details, lines 69-71: the update payload
UpdatePayload(t) ==
    [short_description |-> t.short_description, description |-> t.description]

\* _finalize_details calling update_ticket again when it gave None.
AfterUpdateRetryOnNull(result, t) ==
    IF result = "null" THEN "update"
    ELSE IF Len(t.attachments) > 0 THEN "attach" ELSE "finished"

\* _finalize_details returning early when update_ticket gave None.
AfterUpdateAbortOnNull(result, t) ==
    IF result # "null" /\ Len(t.attachments) > 0 THEN "attach" ELSE "finished"

\* _finalize_details, lines 73-80: the result of update_ticket is not looked
\* at; the attachment loop starts if there is an attachment
AfterUpdate(result, t) == IF Len(t.attachments) > 0 THEN "attach" ELSE "finished"

\* The attachment loop left after its first pass.
AfterAttachmentFirstOnly(result, k, t) == "finished"

\* The attachment loop left at the first add_attachment that gave None.
AfterAttachmentStopOnNull(result, k, t) ==
    IF result # "null" /\ k < Len(t.attachments) THEN "attach" ELSE "finished"

\* _finalize_details, lines 80-84: the result of add_attachment is not looked
\* at; the loop goes on to the next attachment
AfterAttachment(result, k, t) == IF k < Len(t.attachments) THEN "attach" ELSE "finished"

\* create_ticket, line 299: _finalize_details has no return statement
FinalizeReturn == "None"

\* An exception no caller handles ends main
Raise ==
    /\ pc' = "crashed"
    /\ ret' = "raised"

\* create_ticket, lines 284-291: the integration helper is asked for and no
\* integration client is there
CreateNoClient ==
    /\ ops' = Append(ops, OpRec("create_ticket", "called"))
    /\ prev' = tpl
    /\ pc = "create"
    /\ CreationPath(tpl, integrationClient) = "none"
    /\ ret' = CreateFailedReturn
    /\ pc' = "finished"
    /\ UNCHANGED <<today, integrationClient, fs, idx, tpl, loadRes, validRes, dueRes,
                   updateRes, ticket_base, attIdx, calls, attempts, outcomes,
                   http, fileKind>>

\* _create_via_api over ServiceNowClient.create_requested_item
CreateViaApi ==
    /\ ops' = Append(ops, OpRec("create_ticket", "called"))
    /\ prev' = tpl
    /\ pc = "create"
    /\ CreationPath(tpl, integrationClient) = "api"
    /\ \E resp \in RecordResponses(idx) :
          LET created == StdCreateResult(resp)
              base == IF RecordTruthy(created) THEN created ELSE NoRecord
          IN  /\ calls' = Append(calls, Call(idx, "create", "api", PyNone,
                                             Placeholder, Placeholder, "", resp))
              /\ ticket_base' = base
              /\ pc' = AfterCreate(base)
              /\ ret' = IF AfterCreate(base) = "finished"
                        THEN CreateFailedReturn ELSE ret
    /\ UNCHANGED <<today, integrationClient, fs, idx, tpl, loadRes, validRes, dueRes,
                   updateRes, attIdx, attempts, outcomes,
                   http, fileKind>>

\* _create_via_integration_helper over
\* ServiceNowIntegrationClient.create_requested_item
CreateViaIntegrationHelper ==
    /\ ops' = Append(ops, OpRec("create_ticket", "called"))
    /\ prev' = tpl
    /\ pc = "create"
    /\ CreationPath(tpl, integrationClient) = "integration"
    /\ \E post \in IntegrationResponses(idx), get \in RecordResponses(idx) :
          LET postCall == Call(idx, "integration_post", "integration", PyNone,
                               Placeholder, Placeholder, "", post)
              getCall == Call(idx, "lookup", "integration", PyNone, PyNone, PyNone,
                              post.num.s, get)
              found == FindResult(get)
              base == IF RecordTruthy(found) THEN found ELSE NoRecord
          IN  IF post.shape \in {"fault", "marker"}
              THEN \* no response, or no "result" in it: returns None
                   /\ calls' = Append(calls, postCall)
                   /\ ticket_base' = NoRecord
                   /\ pc' = AfterCreate(NoRecord)
                   /\ ret' = IF AfterCreate(NoRecord) = "finished"
                             THEN CreateFailedReturn ELSE ret
              ELSE IF post.shape # "result" \/ ~Truthy(post.num)
              THEN \* response["result"]["requestItemNumber"] raises, or
                   \* _find_record raises ValueError for an empty number
                   /\ calls' = Append(calls, postCall)
                   /\ ticket_base' = NoRecord
                   /\ Raise
              ELSE /\ calls' = calls \o <<postCall, getCall>>
                   /\ ticket_base' = base
                   /\ pc' = AfterCreate(base)
                   /\ ret' = IF AfterCreate(base) = "finished"
                             THEN CreateFailedReturn ELSE ret
    /\ UNCHANGED <<today, integrationClient, fs, idx, tpl, loadRes, validRes, dueRes,
                   updateRes, attIdx, attempts, outcomes,
                   http, fileKind>>

\* _finalize_details, lines 69-75, over ServiceNowClient.update_ticket
UpdateDetails ==
    /\ pc = "update"
    /\ IF ~Truthy(ticket_base.sys_id)
       THEN \* update_ticket, lines 881-883: ValueError before any request
            /\ Raise
            /\ UNCHANGED <<updateRes, attIdx, calls>>
       ELSE \E resp \in SimpleResponses(idx) :
               LET payload == UpdatePayload(tpl)
                   result == UpdateResult(resp)
                   next == AfterUpdate(result, tpl)
               IN  /\ calls' = Append(calls,
                         Call(idx, "update", FinalizeClient, ticket_base.sys_id,
                              payload.short_description, payload.description, "", resp))
                   /\ updateRes' = result
                   /\ pc' = next
                   /\ attIdx' = IF next = "attach" THEN 1 ELSE attIdx
                   /\ ret' = IF next = "finished" THEN FinalizeReturn ELSE ret
    /\ UNCHANGED <<today, integrationClient, fs, idx, tpl, loadRes, validRes, dueRes,
                   ticket_base, attempts, outcomes,
                   http, fileKind, prev, ops>>

\* _finalize_details, lines 80-84, over ServiceNowClient.add_attachment
AddAttachment ==
    /\ pc = "attach"
    /\ LET path == tpl.attachments[attIdx].path.s
           Attempt(res) == [tpl |-> idx, path |-> path, res |-> res]
           Step(res) ==
               LET next == AfterAttachment(res, attIdx, tpl)
               IN  /\ attempts' = Append(attempts, Attempt(res))
                   /\ pc' = next
                   /\ attIdx' = IF next = "attach" THEN attIdx + 1 ELSE attIdx
                   /\ ret' = IF next = "finished" THEN FinalizeReturn ELSE ret
       IN  IF path \notin fs
           THEN \* add_attachment, lines 939-941: FileNotFoundError, outside the try
                /\ attempts' = Append(attempts, Attempt("raised"))
                /\ Raise
                /\ UNCHANGED <<attIdx, calls>>
           ELSE \E readable \in BOOLEAN, resp \in SimpleResponses(idx) :
                   IF ~readable
                   THEN \* open() or read() fails: the IOError is logged, no request
                        /\ Step("null")
                        /\ UNCHANGED calls
                   ELSE /\ calls' = Append(calls,
                              Call(idx, "upload", FinalizeClient, ticket_base.sys_id,
                                   PyNone, PyNone, path, resp))
                        /\ Step(UploadResult(resp))
    /\ UNCHANGED <<today, integrationClient, fs, idx, tpl, loadRes, validRes, dueRes,
                   updateRes, ticket_base, outcomes,
                   http, fileKind, prev, ops>>

\* How the iteration over the current template ended
Outcome ==
    IF loadRes = "false" THEN "load_failed"
    ELSE IF validRes = "false" THEN "invalid"
    ELSE IF dueRes = "false" THEN "not_due"
    ELSE IF ret \in {"None", "True"} THEN "done"
    ELSE "create_failed"

\* main.py:158-160: the for loop moves to the next file and constructs its
\* TicketTemplate, or ends
NextTemplate ==
    /\ pc = "finished"
    /\ outcomes' = Append(outcomes, Outcome)
    /\ IF idx < NumTemplates
       THEN /\ idx' = idx + 1
            /\ pc' = "load"
            /\ tpl' = NewTemplate
            /\ loadRes' = "unset"
            /\ validRes' = "unset"
            /\ dueRes' = "unset"
            /\ ret' = "unset"
            /\ updateRes' = "unset"
            /\ ticket_base' = NoRecord
            /\ attIdx' = 0
            /\ calls' = <<>>
            /\ attempts' = <<>>
            /\ prev' = NewTemplate
            /\ fileKind' = "unread"
            /\ ops' = <<>>
       ELSE /\ pc' = "exit"
            /\ UNCHANGED <<idx, tpl, loadRes, validRes, dueRes, ret, updateRes,
                           ticket_base, attIdx, calls, attempts, prev, fileKind,
                           ops>>
    /\ UNCHANGED <<today, integrationClient, fs, http>>

\* The environment: a local file disappears while the runner is running.
\* The file system is read by validate_structure and by add_attachment only,
\* so a removal is placed right before one of these reads.
RemoveFile ==
    /\ pc \in {"validate", "attach"}
    /\ \E p \in fs : fs' = fs \ {p}
    /\ UNCHANGED <<today, integrationClient, idx, pc, tpl, loadRes, validRes, dueRes,
                   ret, updateRes, ticket_base, attIdx, calls, attempts, outcomes,
                   http, fileKind, prev, ops>>

Next ==
    \/ RunLoad
    \/ RunValidate
    \/ RunIsDue
    \/ CreateNoClient
    \/ CreateViaApi
    \/ CreateViaIntegrationHelper
    \/ UpdateDetails
    \/ AddAttachment
    \/ NextTemplate
    \/ RemoveFile

Spec == Init /\ [][Next]_vars

----------------------------------------------------------------------------
(* is_due on its own: every date of the years modelled, and schedules with  *)
(* well-formed and malformed values.                                        *)

DayOfWeekValues ==
    {PyInt(k) : k \in -1..7}
    \cup {PyNone, PyStr("2"), PyFloat(2), PyBool(TRUE), PyBool(FALSE)}

DayOfMonthValues ==
    {PyInt(k) : k \in {0, 1, 15, 29, 31}} \cup {PyNone, PyStr("15"), PyBool(TRUE)}

MonthsValues ==
    {NoMonths, MonthList({}), MonthList({1, 4, 7, 10}), MonthList({2}),
     [t |-> "str", items |-> {}]}

DueSchedules ==
    {[Daily EXCEPT !.day_of_week = dow, !.day_of_month = dom, !.months = ms] :
        dow \in {PyNone, PyInt(5), PyInt(6)}, dom \in {PyNone, PyInt(15)},
        ms \in {NoMonths, MonthList({1, 4, 7, 10})}}
    \cup {[Weekly(dow) EXCEPT !.day_of_month = dom] :
            dow \in DayOfWeekValues, dom \in {PyNone, PyInt(15)}}
    \cup {[Monthly(dom) EXCEPT !.day_of_week = dow] :
            dom \in DayOfMonthValues, dow \in {PyNone, PyInt(2)}}
    \cup {Quarterly(ms, dom) : ms \in MonthsValues, dom \in DayOfMonthValues}
    \cup {[EmptySchedule EXCEPT !.frequency = f, !.day_of_week = dow] :
            f \in {"hourly", FreqMissing}, dow \in {PyNone, PyInt(2)}}

InitDue ==
    /\ today \in Dates
    /\ integrationClient = FALSE
    /\ fs = Paths
    /\ idx = 1
    /\ pc = "is_due"
    /\ \E sch \in DueSchedules : tpl = [NewTemplate EXCEPT !.schedule = sch]
    /\ loadRes = "unset"
    /\ validRes = "unset"
    /\ dueRes = "unset"
    /\ ret = "unset"
    /\ updateRes = "unset"
    /\ ticket_base = NoRecord
    /\ attIdx = 0
    /\ calls = <<>>
    /\ attempts = <<>>
    /\ outcomes = <<>>
    /\ prev = tpl
    /\ fileKind = "unread"
    /\ http = NoHttp
    /\ ops = <<>>

NextDue == RunIsDue

SpecDue == InitDue /\ [][NextDue]_vars

----------------------------------------------------------------------------
(* validate_structure on its own, followed by is_due as in main.py:164-165: *)
(* loaded templates with well-formed and malformed fields, schedules and    *)
(* attachment items, over every state of the local files.                   *)

ValidateSchedules ==
    {EmptySchedule,
     [EmptySchedule EXCEPT !.extra = TRUE],
     [EmptySchedule EXCEPT !.frequency = "hourly"],
     Daily,
     Weekly(PyNone), Weekly(PyInt(5)), Weekly(PyStr("5")),
     Monthly(PyNone), Monthly(PyInt(5)),
     Quarterly(NoMonths, PyNone),
     Quarterly(MonthList({1, 4, 7, 10}), PyInt(5)),
     Quarterly([t |-> "str", items |-> {}], PyInt(5))}

ValidateEntries ==
    {NotADict,
     Entry(PyNone, PyNone),
     Entry(PyStr(""), PyInt(1)),
     Entry(PyStr("a.txt"), PyBool(TRUE)),
     Entry(PyStr("a.txt"), PyBool(FALSE)),
     Entry(PyStr("b.txt"), PyBool(FALSE))}

\* What load leaves in the instance, and an instance validated once before
ValidateTemplates ==
    {[assignment_group |-> ag, short_description |-> sd, description |-> d,
      integration_helper |-> ih, schedule |-> sch, attachments |-> atts,
      validation_errors |-> errs] :
        ag \in {PyStr("group"), PyInt(7)},
        sd \in {PyNone, PyStr("short text")},
        d \in {PyStr("long text")},
        ih \in {PyNone, PyBool(TRUE), PyStr("yes")},
        sch \in ValidateSchedules,
        atts \in SeqsUpTo(ValidateEntries, MaxAtt),
        errs \in {<<>>, <<"an earlier error">>}}

InitValidate ==
    /\ today \in {d \in RunnerDates : d.day = 5}
    /\ integrationClient = FALSE
    /\ fs \in SUBSET Paths
    /\ idx = 1
    /\ pc = "validate"
    /\ tpl \in ValidateTemplates
    /\ loadRes = "true"
    /\ validRes = "unset"
    /\ dueRes = "unset"
    /\ ret = "unset"
    /\ updateRes = "unset"
    /\ ticket_base = NoRecord
    /\ attIdx = 0
    /\ calls = <<>>
    /\ attempts = <<>>
    /\ outcomes = <<>>
    /\ prev = tpl
    /\ fileKind = "ok"
    /\ http = NoHttp
    /\ ops = <<OpRec("load", "true")>>

NextValidate == RunValidate \/ RunIsDue

SpecValidate == InitValidate /\ [][NextValidate]_vars

----------------------------------------------------------------------------
(* _execute_http_request on its own: every transport fault, and every       *)
(* status code and body of the sets below.                                  *)

HttpStatuses == {200, 201, 202, 204, 300, 304, 400, 401, 403, 404, 429, 500, 503}

HttpBodies == {"empty", "json_result", "json_other", "json_list", "not_json"}

HttpFaults == {"connection", "timeout", "request"}

HttpExchanges ==
    {HttpExchange("none", st, b) : st \in HttpStatuses, b \in HttpBodies}
    \cup {HttpExchange(f, 0, "empty") : f \in HttpFaults}

InitHttp ==
    /\ today \in {d \in RunnerDates : d.day = 5}
    /\ integrationClient = FALSE
    /\ fs = Paths
    /\ idx = 1
    /\ pc = "request"
    /\ tpl = NewTemplate
    /\ loadRes = "unset"
    /\ validRes = "unset"
    /\ dueRes = "unset"
    /\ ret = "unset"
    /\ updateRes = "unset"
    /\ ticket_base = NoRecord
    /\ attIdx = 0
    /\ calls = <<>>
    /\ attempts = <<>>
    /\ outcomes = <<>>
    /\ prev = NewTemplate
    /\ fileKind = "unread"
    /\ http \in HttpExchanges
    /\ ops = <<>>

\* One call of _execute_http_request
RunHttp ==
    /\ pc = "request"
    /\ http.out = "unset"
    /\ http' = [http EXCEPT !.out = ExecuteHttpRequest(http)]
    /\ pc' = IF ExecuteHttpRequest(http) = "raised" THEN "crashed" ELSE "exit"
    /\ UNCHANGED <<today, integrationClient, fs, idx, tpl, loadRes, validRes, dueRes,
                   ret, updateRes, ticket_base, attIdx, calls, attempts, outcomes,
                   prev, fileKind, ops>>

NextHttp == RunHttp

SpecHttp == InitHttp /\ [][NextHttp]_vars

----------------------------------------------------------------------------
(* One TicketTemplate instance used freely: load, validate_structure,       *)
(* is_due and create_ticket called in any order, up to MaxCalls calls, with *)
(* the local files as they are at the start.                                *)

InstanceDocs ==
    {Doc("ok", PyStr("group"), PyStr("short text"), PyStr("long text"), ih, Daily, atts) :
        ih \in {PyNone, PyBool(TRUE)},
        atts \in {<<>>, <<Entry(PyStr("a.txt"), PyBool(TRUE))>>,
                  <<Entry(PyStr("b.txt"), PyBool(FALSE))>>}}
    \cup {Doc("ok", PyStr("group"), PyStr("short text"), PyStr("long text"), PyNone,
              [EmptySchedule EXCEPT !.frequency = "hourly"], <<>>)}
    \cup {Doc("missing", PyNone, PyNone, PyNone, PyNone, EmptySchedule, <<>>)}
    \cup {Doc("attachments_not_table", PyStr("other group"), PyStr("other text"),
              PyStr("long text"), PyNone, Weekly(PyInt(5)), <<>>)}

InitInstance ==
    /\ today \in {d \in RunnerDates : d.day = 5}
    /\ integrationClient \in BOOLEAN
    /\ fs \in SUBSET Paths
    /\ idx = 1
    /\ pc = "idle"
    /\ tpl = NewTemplate
    /\ loadRes = "unset"
    /\ validRes = "unset"
    /\ dueRes = "unset"
    /\ ret = "unset"
    /\ updateRes = "unset"
    /\ ticket_base = NoRecord
    /\ attIdx = 0
    /\ calls = <<>>
    /\ attempts = <<>>
    /\ outcomes = <<>>
    /\ prev = NewTemplate
    /\ fileKind = "unread"
    /\ http = NoHttp
    /\ ops = <<>>

\* template.load()
InstLoad ==
    /\ pc = "idle"
    /\ Len(ops) < MaxCalls
    /\ \E doc \in InstanceDocs :
          LET r == Load(tpl, doc)
          IN  /\ tpl' = r.tpl
              /\ loadRes' = IF r.raised THEN "raised" ELSE Bool3(r.ok)
              /\ fileKind' = doc.kind
              /\ pc' = IF r.raised THEN "crashed" ELSE "idle"
    /\ prev' = tpl
    /\ ops' = Append(ops, OpRec("load", loadRes'))
    /\ UNCHANGED <<today, integrationClient, fs, idx, validRes, dueRes, ret,
                   updateRes, ticket_base, attIdx, calls, attempts, outcomes, http>>

\* template.validate_structure()
InstValidate ==
    /\ pc = "idle"
    /\ Len(ops) < MaxCalls
    /\ LET r == ValidateStructure(tpl, fs)
       IN  /\ tpl' = r.tpl
           /\ validRes' = Bool3(r.ok)
    /\ prev' = tpl
    /\ ops' = Append(ops, OpRec("validate_structure", validRes'))
    /\ UNCHANGED <<today, integrationClient, fs, idx, pc, loadRes, dueRes, ret,
                   updateRes, ticket_base, attIdx, calls, attempts, outcomes,
                   fileKind, http>>

\* template.is_due(today)
InstIsDue ==
    /\ pc = "idle"
    /\ Len(ops) < MaxCalls
    /\ dueRes' = Bool3(IsDue(tpl.schedule, today))
    /\ prev' = tpl
    /\ ops' = Append(ops, OpRec("is_due", dueRes'))
    /\ UNCHANGED <<today, integrationClient, fs, idx, pc, tpl, loadRes, validRes, ret,
                   updateRes, ticket_base, attIdx, calls, attempts, outcomes,
                   fileKind, http>>

\* template.create_ticket(...) is entered; its steps are the actions of
\* create_ticket above
InstCreate ==
    /\ pc = "idle"
    /\ Len(ops) < MaxCalls
    /\ ret = "unset"
    /\ pc' = "create"
    /\ UNCHANGED <<today, integrationClient, fs, idx, tpl, loadRes, validRes, dueRes,
                   ret, updateRes, ticket_base, attIdx, calls, attempts, outcomes,
                   prev, fileKind, http, ops>>

\* create_ticket has returned to its caller
InstReturn ==
    /\ pc = "finished"
    /\ pc' = "idle"
    /\ UNCHANGED <<today, integrationClient, fs, idx, tpl, loadRes, validRes, dueRes,
                   ret, updateRes, ticket_base, attIdx, calls, attempts, outcomes,
                   prev, fileKind, http, ops>>

NextInstance ==
    \/ InstLoad
    \/ InstValidate
    \/ InstIsDue
    \/ InstCreate
    \/ CreateNoClient
    \/ CreateViaApi
    \/ CreateViaIntegrationHelper
    \/ UpdateDetails
    \/ AddAttachment
    \/ InstReturn

SpecInstance == InitInstance /\ [][NextInstance]_vars

----------------------------------------------------------------------------
(* Properties of create_ticket and of the runner, checked under Spec.       *)

\* The phase a request belongs to
Phase(op) ==
    CASE op \in {"create", "integration_post", "lookup"} -> 1
      [] op = "update" -> 2
      [] OTHER -> 3

\* create_ticket has returned to the runner
Returned == pc \in {"finished", "exit"} /\ ret \in {"True", "False", "None"}

\* The base record came back with its sys_id, the update gave a result and
\* every add_attachment gave a result
AllSucceeded ==
    /\ RecordTruthy(ticket_base)
    /\ Truthy(ticket_base.sys_id)
    /\ updateRes = "record"
    /\ \A k \in DOMAIN attempts : attempts[k].res = "uploaded"
    /\ \A k \in DOMAIN calls : calls[k].res = "ok"

\* The paths add_attachment was invoked with, in order
AttemptPaths == [k \in DOMAIN attempts |-> attempts[k].path]

\* The paths of the retained attachments, in list order
AttachmentPaths == [k \in DOMAIN tpl.attachments |-> tpl.attachments[k].path.s]

\* C1: on the standard creation path the requests of a template are ordered
\* by phase, and when every call succeeded create_ticket has issued exactly
\* one create, then one update, then one upload per retained attachment in
\* attachment-list order, and nothing else.
C1_StandardPathCallSequence ==
    (dueRes = "true" /\ ~Truthy(tpl.integration_helper)) =>
        /\ \A i, j \in DOMAIN calls :
              i < j => Phase(calls[i].op) <= Phase(calls[j].op)
        /\ (Returned /\ AllSucceeded) =>
              /\ Len(calls) = 2 + Len(tpl.attachments)
              /\ calls[1].op = "create"
              /\ calls[2].op = "update"
              /\ \A k \in DOMAIN tpl.attachments :
                    /\ calls[2 + k].op = "upload"
                    /\ calls[2 + k].path = tpl.attachments[k].path.s

C1_Witness ==
    /\ Returned /\ AllSucceeded
    /\ ~Truthy(tpl.integration_helper)
    /\ tpl.schedule.frequency = "daily"
    /\ AttachmentPaths = <<"b.txt", "a.txt">>
    /\ [k \in DOMAIN calls |-> calls[k].op] = <<"create", "update", "upload", "upload">>

\* C2: requests, add_attachment invocations and create_ticket itself happen
\* only for a template whose load, validate_structure and is_due all
\* returned true.
C2_NoCallBeforeGates ==
    (\/ calls # <<>>
     \/ attempts # <<>>
     \/ ret # "unset"
     \/ pc \in {"create", "update", "attach"})
        => (loadRes = "true" /\ validRes = "true" /\ dueRes = "true")

C2_Witness ==
    /\ idx = 2
    /\ outcomes = <<"done">>
    /\ pc = "finished"
    /\ dueRes = "false"
    /\ calls = <<>>

\* C3: with integration_helper true and no integration client, create_ticket
\* returns False and no request and no add_attachment is issued.
C3_NoClientNoCalls ==
    (Truthy(tpl.integration_helper) /\ ~integrationClient
     /\ (ret # "unset" \/ pc \in {"update", "attach"}))
        => (ret = "False" /\ calls = <<>> /\ attempts = <<>>)

C3_Witness ==
    /\ tpl.integration_helper = PyBool(TRUE)
    /\ ~integrationClient
    /\ pc = "finished"
    /\ ret = "False"

\* C4: when phase 1 returned no record (on either path), create_ticket
\* returns False and issues no update and no attachment upload.
C4_NoRecordStopsCreateTicket ==
    (calls # <<>> /\ ~RecordTruthy(ticket_base) /\ ret # "raised")
        => /\ ret = "False"
           /\ pc \in {"finished", "exit"}
           /\ \A k \in DOMAIN calls : Phase(calls[k].op) = 1
           /\ attempts = <<>>

C4_Witness ==
    /\ [k \in DOMAIN calls |-> calls[k].op] = <<"integration_post", "lookup">>
    /\ calls[1].res = "ok"
    /\ ~RecordTruthy(ticket_base)
    /\ ret = "False"

\* C5 as stated: once the update call returned a null result, no attachment
\* upload is attempted.
C5_UpdateFailureStopsAttachments ==
    updateRes = "null" => attempts = <<>>

\* C5 as the code has it: a null result of the update call is ignored; the
\* attachment loop runs as after a successful update, and when create_ticket
\* returns every retained attachment has been attempted, in list order.
C5_UpdateFailureIgnored ==
    updateRes = "null" =>
        /\ pc \in {"attach", "finished", "exit", "crashed"}
        /\ pc = "attach" => Len(attempts) = attIdx - 1
        /\ pc \in {"finished", "exit"} => (ret = "None" /\ AttemptPaths = AttachmentPaths)
        /\ pc = "crashed" => (attempts # <<>> /\ attempts[Len(attempts)].res = "raised")

C5_Witness ==
    /\ updateRes = "null"
    /\ pc = "finished"
    /\ Len(attempts) = 2
    /\ \A k \in DOMAIN attempts : attempts[k].res = "uploaded"

C7_FinalizeThroughStandardClient ==
    \A k \in DOMAIN calls :
        Phase(calls[k].op) \in {2, 3} =>
            /\ calls[k].client = "api"
            /\ calls[k].op = "update" =>
                  /\ calls[k].short_description = tpl.short_description
                  /\ calls[k].description = tpl.description

C7_Witness ==
    /\ tpl.integration_helper = PyBool(TRUE)
    /\ [k \in DOMAIN calls |-> calls[k].op] =
          <<"integration_post", "lookup", "update", "upload">>
    /\ calls[1].short_description = Placeholder
    /\ calls[3].short_description = PyStr("short text")
    /\ calls[3].description = PyStr("long text")
    /\ calls[4].client = "api"

\* C8 as stated: create_ticket returns True when the base record was created
\* and phases 2 and 3 were run, False on creation failure.
C8_ReturnsTrueWhenFinalized ==
    Returned => (ret = IF RecordTruthy(ticket_base) THEN "True" ELSE "False")

----------------------------------------------------------------------------
(* Properties of is_due, checked under SpecDue.                             *)

\* C9: for frequency daily, is_due is true exactly on weekday indexes 0..4,
\* whatever the other schedule fields hold.
C9_DailyDueOnWeekdays ==
    (dueRes # "unset" /\ tpl.schedule.frequency = "daily")
        => (dueRes = "true" <=> Weekday(today) \in 0..4)

\* 6 January 2024 was a Saturday
C9_Witness ==
    /\ today = [year |-> 2024, month |-> 1, day |-> 6]
    /\ Weekday(today) = 5
    /\ tpl.schedule.frequency = "daily"
    /\ tpl.schedule.day_of_week = PyInt(5)
    /\ dueRes = "false"

\* C10 as stated: for frequency weekly, is_due is true iff day_of_week is an
\* integer and equals the date's weekday index.
C10_WeeklyDueIffIntegerDayMatches ==
    (dueRes # "unset" /\ tpl.schedule.frequency = "weekly")
        => (dueRes = "true" <=>
                /\ tpl.schedule.day_of_week.t = "int"
                /\ tpl.schedule.day_of_week.n = Weekday(today))

\* C11 as stated: for frequency monthly, is_due is true iff day_of_month is
\* an integer and equals the date's day of the month, whatever the month and
\* the weekday.
C11_MonthlyDueIffIntegerDayMatches ==
    (dueRes # "unset" /\ tpl.schedule.frequency = "monthly")
        => (dueRes = "true" <=>
                /\ tpl.schedule.day_of_month.t = "int"
                /\ tpl.schedule.day_of_month.n = today.day)

\* C12 as stated: for frequency quarterly, is_due is true iff months is a
\* list holding the date's month number and day_of_month is the date's day
\* of the month.
C12_QuarterlyDueIffMonthListedAndDayMatches ==
    (dueRes # "unset" /\ tpl.schedule.frequency = "quarterly")
        => (dueRes = "true" <=>
                /\ tpl.schedule.months.t = "list"
                /\ today.month \in tpl.schedule.months.items
                /\ tpl.schedule.day_of_month.t = "int"
                /\ tpl.schedule.day_of_month.n = today.day)

----------------------------------------------------------------------------
(* Properties of validate_structure, checked under SpecValidate.  prev is   *)
(* the instance as the call found it, tpl the instance as the call left it. *)

\* validate_structure has returned and nothing was called on the instance since
JustValidated == validRes # "unset" /\ dueRes = "unset"

\* The entries the call added to validation_errors
NewErrors ==
    SubSeq(tpl.validation_errors, Len(prev.validation_errors) + 1,
           Len(tpl.validation_errors))

HasNewError(msgs) == \E k \in DOMAIN NewErrors : NewErrors[k] \in msgs

RequiredFields == {"short_description", "description", "assignment_group"}

FieldMessages(name) ==
    {"'" \o name \o "' is missing or null.", "'" \o name \o "' must be a string."}

HelperMessages == {"'integration_helper' must be a boolean when provided."}

ScheduleMessages ==
    {"'schedule' dictionary is empty or was missing.",
     "'frequency' is missing in [ticket.schedule].",
     "Invalid 'frequency' value.",
     "'day_of_week' (integer) is missing for weekly frequency.",
     "'day_of_month' (integer) is missing for monthly frequency.",
     "'months' (list of int) or 'day_of_month' (int) is missing for quarterly frequency."}

\* The messages about the attachment item at (0-based) index i
AttachmentMessages(i) ==
    {m \o " attachment item at index " \o ToString(i) :
        m \in {"not a dictionary:", "'path' is missing or null in",
               "'path' must be a non-empty string in",
               "'required' is missing or null in",
               "'required' must be a boolean in",
               "Required file does not exist:"}}

\* What the specification calls a violation, stated on the instance itself
FieldViolated(v) == v.t # "str"
HelperViolated(v) == v.t \notin {"none", "bool"}
ScheduleViolated(sch) ==
    \/ sch = EmptySchedule
    \/ sch.frequency \notin AllowedFrequencies
    \/ sch.frequency = "weekly" /\ sch.day_of_week = PyNone
    \/ sch.frequency = "monthly" /\ sch.day_of_month = PyNone
    \/ sch.frequency = "quarterly" /\ (sch.months = NoMonths \/ sch.day_of_month = PyNone)
WellFormedEntry(e) ==
    /\ e.kind = "dict"
    /\ e.path.t = "str" /\ e.path.s # ""
    /\ e.required.t = "bool"
EntryViolated(e, files) ==
    \/ ~WellFormedEntry(e)
    \/ e.required = PyBool(TRUE) /\ e.path.s \notin files

\* C13: one call of validate_structure records an error for every violation
\* there is, whatever else is wrong: each required field, integration_helper,
\* the schedule and each attachment item has an error among the entries the
\* call added exactly when it is in violation, and the call answers false
\* when there is any.
C13_EveryViolationRecorded ==
    JustValidated =>
        /\ \A name \in RequiredFields :
              FieldViolated(prev[name]) <=> HasNewError(FieldMessages(name))
        /\ HelperViolated(prev.integration_helper) <=> HasNewError(HelperMessages)
        /\ ScheduleViolated(prev.schedule) <=> HasNewError(ScheduleMessages)
        /\ \A k \in DOMAIN prev.attachments :
              EntryViolated(prev.attachments[k], fs)
                  <=> HasNewError(AttachmentMessages(k - 1))
        /\ NewErrors # <<>> => validRes = "false"

\* short_description missing and an unrecognized frequency, with a malformed
\* attachment item behind them: all three are reported by the one call
C13_Witness ==
    /\ JustValidated
    /\ prev.short_description = PyNone
    /\ prev.schedule.frequency = "hourly"
    /\ Len(prev.attachments) = 2
    /\ prev.attachments[2] = NotADict
    /\ HasNewError({"'short_description' is missing or null."})
    /\ HasNewError({"Invalid 'frequency' value."})
    /\ HasNewError(AttachmentMessages(1))
    /\ validRes = "false"

\* Nothing but the attachment item at position k is in violation
NothingElseFailed(k) ==
    /\ \A name \in RequiredFields : ~FieldViolated(prev[name])
    /\ ~HelperViolated(prev.integration_helper)
    /\ ~ScheduleViolated(prev.schedule)
    /\ \A j \in DOMAIN prev.attachments \ {k} : ~EntryViolated(prev.attachments[j], fs)

\* C14: for a well-formed attachment item whose file is not there, a required
\* one gives a validation error and the answer false; an optional one gives no
\* error, is taken out of attachments, and leaves the answer true when nothing
\* else failed.
C14_MissingAttachmentFile ==
    JustValidated =>
        \A k \in DOMAIN prev.attachments :
            LET e == prev.attachments[k]
            IN  (WellFormedEntry(e) /\ e.path.s \notin fs) =>
                  /\ e.required = PyBool(TRUE) =>
                        /\ validRes = "false"
                        /\ HasNewError({"Required file does not exist: attachment item at index "
                                            \o ToString(k - 1)})
                  /\ e.required = PyBool(FALSE) =>
                        /\ ~HasNewError(AttachmentMessages(k - 1))
                        /\ \A j \in DOMAIN tpl.attachments : tpl.attachments[j] # e
                        /\ NothingElseFailed(k) => validRes = "true"

\* b.txt is optional and gone, a.txt is there: the call answers true and only
\* the a.txt item is left
C14_Witness ==
    /\ JustValidated
    /\ fs = {"a.txt"}
    /\ prev.attachments = <<Entry(PyStr("b.txt"), PyBool(FALSE)),
                            Entry(PyStr("a.txt"), PyBool(FALSE))>>
    /\ tpl.attachments = <<Entry(PyStr("a.txt"), PyBool(FALSE))>>
    /\ NewErrors = <<>>
    /\ validRes = "true"

\* C15 as stated: a template validate_structure answered true for has a
\* recognized frequency and the fields of that frequency with their types, an
\* integer day_of_week for weekly, an integer day_of_month for monthly, a list
\* months and an integer day_of_month for quarterly.
C15_ValidatedScheduleIsWellTyped ==
    validRes = "true" =>
        /\ tpl.schedule.frequency \in AllowedFrequencies
        /\ tpl.schedule.frequency = "weekly" => tpl.schedule.day_of_week.t = "int"
        /\ tpl.schedule.frequency = "monthly" => tpl.schedule.day_of_month.t = "int"
        /\ tpl.schedule.frequency = "quarterly" =>
              /\ tpl.schedule.months.t = "list"
              /\ tpl.schedule.day_of_month.t = "int"

\* C16: validate_structure answers true exactly when the call added nothing
\* to validation_errors and false exactly when it added at least one entry;
\* the entries that were there stay, so on true validation_errors is as the
\* call found it.
C16_TrueIffNothingAppended ==
    JustValidated =>
        /\ Len(tpl.validation_errors) >= Len(prev.validation_errors)
        /\ SubSeq(tpl.validation_errors, 1, Len(prev.validation_errors))
               = prev.validation_errors
        /\ validRes = "true" <=> tpl.validation_errors = prev.validation_errors
        /\ validRes = "false" <=> Len(tpl.validation_errors) > Len(prev.validation_errors)

\* An instance that failed an earlier validation now passes: the earlier entry
\* is all validation_errors holds, although an optional item was dropped
C16_Witness ==
    /\ JustValidated
    /\ validRes = "true"
    /\ prev.validation_errors = <<"an earlier error">>
    /\ tpl.validation_errors = <<"an earlier error">>
    /\ Len(tpl.attachments) < Len(prev.attachments)

----------------------------------------------------------------------------
(* Properties of load and of the runner's loop, checked under Spec.         *)

\* load has returned or raised and nothing was called on the instance since
JustLoaded == loadRes # "unset" /\ validRes = "unset"

FailingFileKinds ==
    {"missing", "decode_error", "no_ticket", "ticket_not_table",
     "attachments_not_table"}

\* C17: load never raises.  For a missing file, a file that does not parse, a
\* file without the ticket section and any other failure it answers false with
\* one entry added to validation_errors; otherwise it answers true with
\* validation_errors as it was.
C17_LoadNeverRaises ==
    JustLoaded =>
        /\ loadRes \in {"true", "false"}
        /\ pc # "crashed"
        /\ fileKind \in FailingFileKinds =>
              /\ loadRes = "false"
              /\ Len(tpl.validation_errors) = Len(prev.validation_errors) + 1
              /\ SubSeq(tpl.validation_errors, 1, Len(prev.validation_errors))
                     = prev.validation_errors
        /\ fileKind \notin FailingFileKinds =>
              /\ loadRes = "true"
              /\ tpl.validation_errors = prev.validation_errors

\* The file parses but its attachments key is not a table: the AttributeError
\* is caught after the first fields were assigned, and the runner moves on
C17_Witness ==
    /\ JustLoaded
    /\ fileKind = "attachments_not_table"
    /\ loadRes = "false"
    /\ tpl.short_description = PyStr("short text")
    /\ tpl.validation_errors = <<"Unexpected loading error">>
    /\ pc = "finished"

\* C18 as stated: a failure while one template is processed, be it in load,
\* in validate_structure or in any phase of create_ticket, ends that template
\* only: the run never stops while a discovered template is still to come.
C18_FailureStaysWithItsTemplate == ~(pc = "crashed" /\ idx < NumTemplates)

\* How many requests of the given kind the current template has issued
OpCount(op) == Cardinality({k \in DOMAIN calls : calls[k].op = op})

\* C19: while one template is processed, the creation request and the update
\* request are each issued at most once, and add_attachment is called at most
\* once for each retained attachment, in list order, with at most one upload
\* request per call, whatever the outcome of the earlier requests.
C19_NoRequestRetried ==
    /\ OpCount("create") + OpCount("integration_post") <= 1
    /\ OpCount("lookup") <= 1
    /\ OpCount("update") <= 1
    /\ Len(attempts) <= Len(tpl.attachments)
    /\ \A k \in DOMAIN attempts : attempts[k].path = AttachmentPaths[k]
    /\ OpCount("upload") <= Len(attempts)

\* The update and both uploads came back null, and create_ticket returned
\* after one update request and one upload request per attachment
C19_Witness ==
    /\ Returned
    /\ updateRes = "null"
    /\ Len(tpl.attachments) = 2
    /\ Len(attempts) = 2
    /\ \A k \in DOMAIN attempts : attempts[k].res = "null"
    /\ OpCount("update") = 1
    /\ OpCount("upload") = 2
    /\ \A k \in DOMAIN calls : calls[k].op \in {"update", "upload"} => calls[k].res = "null"

----------------------------------------------------------------------------
(* Properties of _execute_http_request, checked under SpecHttp.             *)

Answered == http.fault = "none"
Is2xx == http.status \in 200..299

----------------------------------------------------------------------------
(* Properties of the creation paths and of the instance, checked under Spec *)

\* create_ticket has gone through its creation step on the integration path
IntegrationPathTaken ==
    /\ dueRes = "true"
    /\ pc \notin {"is_due", "create"}
    /\ CreationPath(tpl, integrationClient) = "integration"

\* C21: the integration-helper path issues one POST to the integration
\* endpoint and nothing through the standard creation; when the answer carries
\* a number it is followed at once by exactly one lookup by that number, whose
\* record, if any, is the base record of create_ticket; when the POST failed
\* there is no lookup and no record.
C21_IntegrationPostThenOneLookup ==
    IntegrationPathTaken =>
        /\ OpCount("integration_post") = 1
        /\ calls[1].op = "integration_post"
        /\ OpCount("create") = 0
        /\ Truthy(calls[1].num) =>
              /\ OpCount("lookup") = 1
              /\ calls[2].op = "lookup"
              /\ calls[2].path = calls[1].num.s
              /\ ticket_base = IF RecordTruthy(calls[2].rec) THEN calls[2].rec ELSE NoRecord
        /\ calls[1].res = "null" =>
              /\ OpCount("lookup") = 0
              /\ ticket_base = NoRecord
              /\ ret = CreateFailedReturn

\* The POST answered with the number, the lookup gave the record with its
\* sys_id, and the update went to that sys_id
C21_Witness ==
    /\ IntegrationPathTaken
    /\ Len(calls) >= 3
    /\ calls[1].num = NumberOf(idx)
    /\ calls[2].op = "lookup"
    /\ calls[2].path = NumberOf(idx).s
    /\ ticket_base = Record(SysIdOf(idx))
    /\ calls[3].op = "update"
    /\ calls[3].sys_id = SysIdOf(idx)

----------------------------------------------------------------------------
(* Further properties of validate_structure, checked under SpecValidate.    *)

\* A well-formed attachment item whose file is there
Retainable(e) == WellFormedEntry(e) /\ e.path.s \in fs

\* C22: after validate_structure, attachments holds, in their order, exactly
\* the items it held before that are mappings with a non-empty string path
\* and a boolean required and whose file exists.
C22_AttachmentsFiltered ==
    JustValidated => tpl.attachments = SelectSeq(prev.attachments, Retainable)

\* A malformed item in front of a required item whose file is there: only the
\* second is left, and the call answered false
C22_Witness ==
    /\ JustValidated
    /\ fs = Paths
    /\ prev.attachments = <<NotADict, Entry(PyStr("a.txt"), PyBool(TRUE))>>
    /\ tpl.attachments = <<Entry(PyStr("a.txt"), PyBool(TRUE))>>
    /\ validRes = "false"

----------------------------------------------------------------------------
(* Properties of one instance under any order of calls, checked under       *)
(* SpecInstance.                                                            *)

IsPrefix(p, q) == Len(p) <= Len(q) /\ SubSeq(q, 1, Len(p)) = p

\* C23: no step of load, validate_structure, is_due or create_ticket takes
\* anything away from validation_errors: what the list held before the step
\* is a prefix of what it holds after.
C23_ValidationErrorsOnlyGrow ==
    [][IsPrefix(tpl.validation_errors, tpl'.validation_errors)]_vars

\* A load that failed, a validation that failed, and a second load that
\* failed: the first entry is still the first, and six have accumulated
C23_Witness ==
    /\ Len(ops) = 3
    /\ ops[1] = OpRec("load", "false")
    /\ ops[2] = OpRec("validate_structure", "false")
    /\ ops[3] = OpRec("load", "false")
    /\ Len(tpl.validation_errors) = 6
    /\ tpl.validation_errors[1] = "File not found"
    /\ tpl.validation_errors[6] = "Unexpected loading error"

\* The step is a call of the given method
Calls(op) == Len(ops') = Len(ops) + 1 /\ ops'[Len(ops')].op = op

\* C24: a call of is_due changes no field of the instance and issues no
\* request, and it answers false when the frequency is missing or is none of
\* daily, weekly, monthly, quarterly.
C24_IsDueIsPure ==
    [][Calls("is_due") =>
          /\ tpl' = tpl
          /\ calls' = calls
          /\ attempts' = attempts
          /\ ops'[Len(ops')].res = dueRes'
          /\ tpl.schedule.frequency \notin AllowedFrequencies => dueRes' = "false"]_vars

\* is_due on a loaded instance whose frequency is not a known one
C24_Witness ==
    /\ ops = <<OpRec("load", "true"), OpRec("is_due", "false")>>
    /\ tpl.schedule.frequency = "hourly"
    /\ tpl.short_description = PyStr("short text")
    /\ tpl = prev
    /\ dueRes = "false"

----------------------------------------------------------------------------
(* Properties of the runner's pass over one instance, checked under Spec.   *)

WorkflowOrder == <<"load", "validate_structure", "is_due", "create_ticket">>

\* C25: in the runner the methods called on one instance are load,
\* validate_structure, is_due and create_ticket, each at most once and in that
\* order, each only after the one before it answered true; nothing is called
\* on an instance after load, validate_structure or is_due answered false or
\* after create_ticket was called.
C25_SinglePass ==
    /\ Len(ops) <= Len(WorkflowOrder)
    /\ \A k \in DOMAIN ops : ops[k].op = WorkflowOrder[k]
    /\ \A k \in DOMAIN ops : k < Len(ops) => ops[k].res = "true"
    /\ pc = "finished" => ~(ENABLED RunLoad \/ ENABLED RunValidate \/ ENABLED RunIsDue
                            \/ ENABLED CreateNoClient \/ ENABLED CreateViaApi
                            \/ ENABLED CreateViaIntegrationHelper)

\* The second instance has gone through all four methods after the first was
\* found invalid
C25_Witness ==
    /\ outcomes = <<"invalid">>
    /\ idx = 2
    /\ pc = "finished"
    /\ Len(ops) = 4
    /\ ops[4].op = "create_ticket"
    /\ ret = "None"

----------------------------------------------------------------------------
(* Further properties of one instance, checked under SpecInstance.          *)

\* C26 as stated: when validate_structure is called twice in a row with the
\* local files unchanged, the second call answers as the first did and leaves
\* attachments as the first left them.
C26_ValidateTwiceSameAnswer ==
    \A k \in DOMAIN ops :
        (k > 1 /\ ops[k].op = "validate_structure"
               /\ ops[k - 1].op = "validate_structure") =>
            /\ ops[k].res = ops[k - 1].res
            /\ k = Len(ops) => tpl.attachments = prev.attachments

----------------------------------------------------------------------------
(* Further properties of create_ticket, checked under Spec.                 *)

\* C27: create_ticket goes through at most one creation path, chosen by
\* integration_helper alone: no standard creation request when it is true,
\* no request to the integration endpoint and no lookup when it is false or
\* absent, and at most one creation request in all.
C27_OneCreationPath ==
    dueRes = "true" =>
        /\ Truthy(tpl.integration_helper) => OpCount("create") = 0
        /\ ~Truthy(tpl.integration_helper) =>
              OpCount("integration_post") = 0 /\ OpCount("lookup") = 0
        /\ OpCount("create") + OpCount("integration_post") <= 1

\* integration_helper is true and the POST to the integration endpoint
\* failed: create_ticket returned False without a standard creation
C27_Witness ==
    /\ Returned
    /\ tpl.integration_helper = PyBool(TRUE)
    /\ Len(calls) = 1
    /\ calls[1].op = "integration_post"
    /\ calls[1].res = "null"
    /\ ret = "False"

\* C28 as stated: on the integration-helper path, whenever the POST to the
\* integration endpoint created a record (its answer carries the number of
\* the new item), create_ticket has issued the update for it by the time it
\* returns.
C28_CreatedThenUpdated ==
    (Returned /\ IntegrationPathTaken /\ Truthy(calls[1].num))
        => OpCount("update") = 1

\* C29 as stated: every update and upload request carries the sys_id of the
\* record phase 1 returned, and that sys_id is not missing: update_ticket is
\* never entered with a missing sys_id, whatever record the creation path
\* returned.
C29_FinalizeHasSysId ==
    /\ \A k \in DOMAIN calls :
          calls[k].op \in {"update", "upload"} =>
              calls[k].sys_id = ticket_base.sys_id /\ Truthy(calls[k].sys_id)
    /\ ~(pc = "crashed" /\ RecordTruthy(ticket_base) /\ ~Truthy(ticket_base.sys_id))

----------------------------------------------------------------------------
(* A property of load on one instance, checked under SpecInstance.          *)

\* C30 as stated: when load answers false, every field of the instance but
\* validation_errors holds what it held before the call.
C30_FailedLoadKeepsData ==
    (Len(ops) > 0 /\ ops[Len(ops)] = OpRec("load", "false")) =>
        [tpl EXCEPT !.validation_errors = prev.validation_errors] = prev

====
